---------------------------- MODULE Spec2Model ----------------------------
(***************************************************************************)
(* Model of MarketDataScraper (src/backend/market_scrapper.py): the        *)
(* single-day fetch scrape_market_data with its browser driver lifecycle,  *)
(* the dropdown selection retry loop, the result table extraction and the  *)
(* day-by-day aggregation get_price_trends.                                *)
(*                                                                         *)
(* The remote site and the browser are the environment: every Selenium     *)
(* call may succeed or raise one of the exceptions the code distinguishes. *)
(* Strings are sequences of one-character strings so that strip, replace   *)
(* and float parsing are computed, not assumed.                            *)
(***************************************************************************)
EXTENDS Integers, Sequences, FiniteSets, TLC

(***************************************************************************)
(* Bounds of the model                                                     *)
(***************************************************************************)
\* largest day window explored (days argument of get_price_trends and the
\* in-range days argument of scrape_market_data)
MaxDays == 2
\* longest price list given to the trend computation on its own
MaxPrices == 3
\* cleanup() calls followed after one fetch
MaxCleanups == 2
\* largest max_days_to_check explored
MaxCheck == 5
\* requests to /api/market-trends followed
MaxRequests == 4
\* largest max_requests and window_seconds given to rate_limit, latest time
MaxQuota == 2
MaxWindow == 2
MaxTime == 3
\* admitted requests after which no more concurrent requests are followed
MaxAdmitted == 2
\* requests to the endpoint behind require_api_key followed
MaxAuthRequests == 6
\* latest time of the location cache, in minutes
MaxClock == 90

(***************************************************************************)
(* Program constants                                                       *)
(***************************************************************************)
\* Config.MAX_DAYS_BACK
MAX_DAYS_BACK == 30
\* a loop that gives up one attempt early
max_retries_short == 3 - 1

\* default of the max_retries parameter of _select_dropdown_option
max_retries == 3
\* minimum number of td cells of a data row
MinCells == 11
\* default of the ttl_minutes parameter of LocationCache
ttl_minutes == 60

(***************************************************************************)
(* Strings                                                                 *)
(***************************************************************************)
Digits == {"0", "1", "2", "3", "4", "5", "6", "7", "8", "9"}

DigitVal(c) ==
    CASE c = "0" -> 0 [] c = "1" -> 1 [] c = "2" -> 2 [] c = "3" -> 3
      [] c = "4" -> 4 [] c = "5" -> 5 [] c = "6" -> 6 [] c = "7" -> 7
      [] c = "8" -> 8 [] c = "9" -> 9

RECURSIVE LStrip(_)
LStrip(s) == IF s # <<>> /\ Head(s) = " " THEN LStrip(Tail(s)) ELSE s

RECURSIVE RStrip(_)
RStrip(s) ==
    IF s # <<>> /\ s[Len(s)] = " " THEN RStrip(SubSeq(s, 1, Len(s) - 1)) ELSE s

\* str.strip()
Strip(s) == LStrip(RStrip(s))

\* str.replace(",", "")
RemoveCommas(s) == SelectSeq(s, LAMBDA c : c # ",")

\* float(s) raises ValueError unless s is a number; the strings of the model
\* hold digits, commas, spaces and letters only, so a number is a non-empty
\* digit string possibly surrounded by blanks
FloatOk(s) == Strip(s) # <<>> /\ \A i \in 1..Len(Strip(s)) : Strip(s)[i] \in Digits

RECURSIVE DigitsValue(_)
DigitsValue(s) ==
    IF s = <<>> THEN 0
    ELSE 10 * DigitsValue(SubSeq(s, 1, Len(s) - 1)) + DigitVal(s[Len(s)])

\* float(s) for a string with FloatOk(s)
FloatOf(s) == DigitsValue(Strip(s))

\* fallback format_price: the identity
format_price(price) == price

\* fallback clean_text_data: the identity
clean_text_data(d) == d

(***************************************************************************)
(* The remote site: the result page of each day                            *)
(***************************************************************************)
\* a tr of the result table: the number of its td cells and the raw text of
\* cells[1] (market centre) and cells[8] (modal price); the other cells do
\* not influence control flow
Row(n, mc, mp) == [cells |-> n, center |-> mc, modal |-> mp]

\* a header row of th cells, and one written with 11 td cells
Header == Row(0, <<>>, <<>>)
HeaderTd == Row(11, <<"M", "a", "r", "k", "e", "t">>, <<"M", "o", "d", "a", "l">>)

Pune == <<"P", "u", "n", "e">>
Nasik == <<"N", "a", "s", "i", "k">>
P2250c == <<"2", ",", "2", "5", "0">>
P2100 == <<"2", "1", "0", "0">>
P2000 == <<"2", "0", "0", "0">>
PNR == <<"N", "R">>

\* a result page: whether the element cphBody_GridPriceData ever appears,
\* and the tr rows of the table
Page(present, rows) == [table |-> present, rows |-> rows]

\* the result pages the site may serve for a day
Pages ==
    { Page(FALSE, <<>>),
      Page(TRUE, <<Header>>),
      Page(TRUE, <<Header, Row(11, Pune, P2250c)>>),
      Page(TRUE, <<Header, Row(10, Pune, P2000), Row(11, <<" ">>, P2000),
                   Row(11, <<" ">> \o Nasik, PNR),
                   Row(12, Pune, P2100 \o <<" ">>)>>),
      Page(TRUE, <<HeaderTd, Row(11, Pune, <<" ">>), Row(11, Nasik, P2100),
                   Row(11, Pune, P2000)>>) }

(***************************************************************************)
(* _extract_table_data, after the table element was found                  *)
(***************************************************************************)
\* the dictionary built from the cells of one row
RowDict(r) ==
    [Market_Center |-> Strip(r.center),
     Modal_Price   |-> format_price(Strip(r.modal))]

\* a test that looks at the market centre only
RowValidCenterOnly(d) == d.Market_Center # <<>>

\* the validity test before json_list.append
RowValid(d) == d.Market_Center # <<>> /\ d.Modal_Price # <<>>

\* a row is emitted when it has at least 11 cells and its dictionary is valid
RowKept(r) == r.cells >= MinCells /\ RowValid(RowDict(r))

\* a loop that ends at the first row with too few cells
RECURSIVE ExtractRowsStopAtShort(_)
ExtractRowsStopAtShort(rows) ==
    IF rows = <<>> THEN <<>>
    ELSE IF Head(rows).cells < MinCells THEN <<>>
    ELSE IF RowKept(Head(rows))
         THEN <<RowDict(Head(rows))>> \o ExtractRowsStopAtShort(Tail(rows))
         ELSE ExtractRowsStopAtShort(Tail(rows))

RECURSIVE ExtractRows(_)
ExtractRows(rows) ==
    IF rows = <<>> THEN <<>>
    ELSE IF RowKept(Head(rows))
         THEN <<RowDict(Head(rows))>> \o ExtractRows(Tail(rows))
         ELSE ExtractRows(Tail(rows))

\* table.find_all("tr"), the len(rows) < 2 test and the loop over rows[1:]
ParseTable(rows) ==
    IF Len(rows) < 2 THEN <<>> ELSE clean_text_data(ExtractRows(Tail(rows)))

(***************************************************************************)
(* State                                                                   *)
(***************************************************************************)
VARIABLES
    \* scrape_market_data
    pc,             \* position in scrape_market_data
    sdays,          \* its days argument
    driver,         \* self.driver: 0 is None, otherwise a browser id
    attempt,        \* loop variable of _select_dropdown_option
    data,           \* value returned by scrape_market_data
    escaping,       \* an exception is propagating out of the try block
    \* get_price_trends
    tpc,            \* position in get_price_trends
    days,           \* its days argument
    iter,           \* number of iterations of its loop already finished
    day_ago,        \* its loop variable
    all_prices,     \* its list all_prices
    trends,         \* value returned by get_price_trends
    \* environment
    remote,         \* the result page the site serves for each day
    marketOptions,  \* number of options of ddlMarket in the loaded page
    created,        \* number of browsers launched so far
    quitCalls,      \* number of quit() calls received by each browser
    \* history of the current fetch
    base,           \* number of browsers launched before this fetch
    kind,           \* how the fetch ended: "ok", "hard" or "invalid"
    lastErr,        \* exception raised by the latest selection attempt
    ran,            \* form steps started, in order of first start
    okSteps,        \* form steps that succeeded
    tries,          \* attempts made in the current selection step
    staleInStep,    \* StaleElementReferenceExceptions in the current step
    staleMax,       \* largest staleInStep of the steps of this fetch
    otherFault,     \* a fault other than staleness in a selection occurred
    staleSeen,      \* the current browser raised a staleness error
    usedAfterStale, \* a form step used a browser after its staleness error
    sawSignal,      \* the option count of ddlMarket was seen to exceed 1
    slept,          \* time.sleep(2) was executed
    sleptWithSignal,\* ... while ddlMarket already held more than 1 option
    quitFailed,     \* a quit() call raised
    \* history of the current get_price_trends call
    calls,          \* days arguments of its scrape_market_data calls, in order
    dayData,        \* value returned by the fetch of each day
    dayKind,        \* how the fetch of each day ended
    \* history of all fetches
    hardValues,     \* values returned by fetches that failed hard
    emptyOkValues,  \* values returned by successful fetches with zero rows
    \* history of the caller
    cleanups,       \* cleanup() calls since the latest fetch began
    prevClean,      \* day and value of the fetch just before, if fault-free
    \* two threads in scrape_market_data
    th_pc,          \* position of each thread in scrape_market_data
    th_obj,         \* the MarketDataScraper object each thread calls
    self_driver,    \* self.driver of each object: 0 is None
    launched,       \* the thread that launched each browser, in launch order
    quits,          \* number of quit() calls received by each browser
    drove,          \* the browsers each thread has driven a form step on
    \* findMostRecentData
    rpc,            \* position in findMostRecentData
    max_days_to_check, \* its argument
    days_back,      \* its loop variable
    site,           \* the result page the site serves for each day
    probes,         \* days arguments of its fetches, in order
    recent,         \* value it returns
    probeFault,     \* a fetch of this search was hit by a fault
    \* /api/market-trends
    scraperName,    \* the name MarketDataScraper of app.py after its imports
    market_trends,  \* rows of the table market_trends, oldest first
    served,         \* number of requests handled
    scrapes,        \* get_price_trends calls made by the handler, per key
    lastReq,        \* the latest request and its response
    \* rate_limit of one decorated endpoint
    max_requests,   \* argument of rate_limit
    window_seconds, \* argument of rate_limit
    now,            \* time.time()
    rate_limit_data,\* wrapper._rate_limit_data: times recorded per client
    rl_pc,          \* position of each request thread in wrapper
    client_ip,      \* its client_ip
    current_time,   \* its current_time
    old_times,      \* the list its comprehension iterates over
    rl_status,      \* status of its latest response: 200 is the handler's
    admitted,       \* times of the requests that reached the handler
    arrival,        \* what the latest request found on arrival
    \* require_api_key
    API_KEY,        \* the environment variable API_KEY
    x_api_key,      \* header X-API-Key of the latest request
    expected_key,   \* os.getenv('API_KEY') as read for the latest request
    auth_status,    \* status of its response: 200 is the handler's
    auth_requests,  \* number of requests received
    handler_calls,  \* number of calls of the wrapped handler
    \* LocationCache and GeolocationService
    cache_file,     \* location_cache.json: whether it exists, its entries
    clock,          \* datetime.now(), in minutes
    latest_set,     \* time and data of the latest set of each key
    last_get,       \* the call just made, if a LocationCache.get: key,
                    \* time, result, and the latest set of the key before
    geo_call,       \* the call just made, if a get_location: what it did
    \* speech_to_text and analyze_crop
    imports,        \* the import block of app.py: "boot", "ok" or "failed"
    uploads,        \* the uploads folder: per file name the request thread
                    \* whose upload it holds, 0 when the file does not exist
    up_pc,          \* position of each request thread in its handler
    up_route,       \* the handler each thread runs
    up_path,        \* its filename (media_path / temp_path), <<>> when none
    up_read,        \* whose upload its service read, 0 a missing file,
                    \* -1 when no service read the file
    up_status       \* its response status, 0 when none yet

fetchVars == <<pc, sdays, driver, attempt, data, escaping>>
trendVars == <<tpc, days, iter, day_ago, all_prices, trends>>
envVars == <<remote, marketOptions, created, quitCalls>>
fetchHist == <<base, kind, lastErr, ran, okSteps, tries, staleInStep, staleMax,
               otherFault, staleSeen, usedAfterStale, sawSignal, slept,
               sleptWithSignal, quitFailed>>
trendHist == <<calls, dayData, dayKind>>
allHist == <<hardValues, emptyOkValues>>
callerHist == <<cleanups, prevClean>>
scraperVars == <<fetchVars, trendVars, envVars, fetchHist, trendHist, allHist,
                 callerHist>>
concVars == <<th_pc, th_obj, self_driver, launched, quits, drove>>
\* the variables outside the single-threaded scraper
recentVars == <<rpc, max_days_to_check, days_back, site, probes, recent,
                probeFault>>
apiVars == <<scraperName, market_trends, served, scrapes, lastReq>>
rateVars == <<max_requests, window_seconds, now, rate_limit_data, rl_pc,
              client_ip, current_time, old_times, rl_status, admitted,
              arrival>>
authVars == <<API_KEY, x_api_key, expected_key, auth_status, auth_requests,
              handler_calls>>
geoVars == <<cache_file, clock, latest_set, last_get, geo_call>>
uploadVars == <<imports, uploads, up_pc, up_route, up_path, up_read, up_status>>
webVars ==
    <<concVars, recentVars, apiVars, rateVars, authVars, geoVars, uploadVars>>
vars == <<scraperVars, webVars>>

\* the form steps of a single-day fetch, in the order of the code
StepOrder ==
    <<"navigate", "selCommodity", "selState", "waitMarket", "selMarket",
      "setDate", "click", "extract">>

SelectPcs == {"selCommodity", "selState", "selMarket"}

\* exception classes the code distinguishes
Stale == "StaleElementReferenceException"
NoSuch == "NoSuchElementException"
Timeout == "TimeoutException"
WebDriverExc == "WebDriverException"
Other == "Exception"
Excs == {Stale, NoSuch, Timeout, WebDriverExc, Other}

\* days arguments tried for scrape_market_data: in range, zero, above the
\* maximum
DayInputs == (0..MaxDays) \cup {MAX_DAYS_BACK + 1}

EmptyDict == [empty |-> TRUE]

NoDay == [d \in 1..MaxDays |-> <<>>]
NoKind == [d \in 1..MaxDays |-> "none"]
NoPrev == [day |-> 0, value |-> <<>>]

\* the threads and the scraper objects of the concurrent fetches
Threads == {1, 2}
Objects == {1, 2}

\* no thread has called yet
ConcIdle ==
    /\ th_pc = [t \in Threads |-> "idle"]
    /\ th_obj = [t \in Threads |-> 0]
    /\ self_driver = [o \in Objects |-> 0]
    /\ launched = <<>>
    /\ quits = <<>>
    /\ drove = [t \in Threads |-> {}]

\* nothing outside the single-threaded scraper has happened
\* findMostRecentData has not been called
RecentIdle ==
    /\ rpc = "idle"
    /\ max_days_to_check = 0
    /\ days_back = 0
    /\ site = <<>>
    /\ probes = <<>>
    /\ recent = <<>>
    /\ probeFault = FALSE

\* the (commodity, state, market) triples requested
Keys == {<<"Onion", "Maharashtra", "Pune">>, <<"Wheat", "Punjab", "Ludhiana">>}

None == "None"

\* a Python dict with string keys; {} is the empty one
EmptyTrends == [f \in {} |-> None]

NoRequest ==
    [key |-> <<"", "", "">>, hadRow |-> FALSE, scraped |-> FALSE,
     outcome |-> "none", status |-> 0, body |-> EmptyTrends]

\* app.py before its import block has run, the table empty
ApiIdle ==
    /\ scraperName = "boot"
    /\ market_trends = <<>>
    /\ served = 0
    /\ scrapes = [k \in Keys |-> 0]
    /\ lastReq = NoRequest

\* client addresses, request threads
Ips == {"10.0.0.1", "10.0.0.2"}
RlThreads == {1, 2}

NoArrival == [ip |-> "", inWindow |-> 0, admittedBefore |-> 0]

\* rate_limit not applied yet
RateIdle ==
    /\ max_requests = 0
    /\ window_seconds = 0
    /\ now = 0
    /\ rate_limit_data = [ip \in Ips |-> <<>>]
    /\ rl_pc = [t \in RlThreads |-> "undecorated"]
    /\ client_ip = [t \in RlThreads |-> ""]
    /\ current_time = [t \in RlThreads |-> 0]
    /\ old_times = [t \in RlThreads |-> <<>>]
    /\ rl_status = [t \in RlThreads |-> 0]
    /\ admitted = [ip \in Ips |-> <<>>]
    /\ arrival = NoArrival

\* no request yet, API_KEY not set
AuthIdle ==
    /\ API_KEY = None
    /\ x_api_key = None
    /\ expected_key = None
    /\ auth_status = 0
    /\ auth_requests = 0
    /\ handler_calls = 0

\* cache keys: the key of a call without address, an address
CacheKeys == {"default_ip", "203.0.113.7"}

\* no location
NoLocation == [source |-> None]

NeverSet == [at |-> 0 - 1, data |-> NoLocation]
NoGet == [key |-> "", at |-> 0, result |-> NoLocation, set |-> NeverSet]
NoGeoCall ==
    [ip |-> None, use_cache |-> FALSE, cached |-> NoLocation,
     queried |-> <<>>, result |-> NoLocation, written |-> FALSE]

\* the cache file does not exist, nothing was called
GeoIdle ==
    /\ cache_file = [exists |-> FALSE, entries |-> <<>>]
    /\ clock = 0
    /\ latest_set = [k \in CacheKeys |-> NeverSet]
    /\ last_get = NoGet
    /\ geo_call = NoGeoCall

\* request threads of the upload handlers
UpThreads == {1, 2}

\* file names a client can send in the multipart form
RawNames ==
    { <<>>, <<"a", " ", "b">>, <<"a", "_", "b">>, <<".", ".", "/", "c">>,
      <<"c">>, <<".", ".">> }

\* str.replace(sep, " ") for the path separator
ReplaceSep(name) ==
    [i \in 1..Len(name) |-> IF name[i] = "/" THEN " " ELSE name[i]]

\* "_".join(filename.split()): whitespace at the ends is dropped, each run
\* of whitespace inside becomes one underscore
RECURSIVE SplitWords(_, _)
SplitWords(name, word) ==
    IF name = <<>>
    THEN IF word = <<>> THEN <<>> ELSE <<word>>
    ELSE IF Head(name) = " "
         THEN IF word = <<>>
              THEN SplitWords(Tail(name), <<>>)
              ELSE <<word>> \o SplitWords(Tail(name), <<>>)
         ELSE SplitWords(Tail(name), Append(word, Head(name)))

RECURSIVE JoinWords(_)
JoinWords(words) ==
    IF words = <<>> THEN <<>>
    ELSE IF Len(words) = 1 THEN words[1]
    ELSE words[1] \o <<"_">> \o JoinWords(Tail(words))

\* the characters secure_filename keeps
FilenameAscii(ch) == ch \in {"a", "b", "c", "_", ".", "-"}

\* str.strip("._")
RECURSIVE LStripDots(_)
LStripDots(name) ==
    IF name # <<>> /\ Head(name) \in {".", "_"}
    THEN LStripDots(Tail(name))
    ELSE name

RECURSIVE RStripDots(_)
RStripDots(name) ==
    IF name # <<>> /\ name[Len(name)] \in {".", "_"}
    THEN RStripDots(SubSeq(name, 1, Len(name) - 1))
    ELSE name

\* werkzeug.utils.secure_filename, as the handlers call it
secure_filename(name) ==
    RStripDots(LStripDots(SelectSeq(JoinWords(SplitWords(ReplaceSep(name), <<>>)),
                            FilenameAscii)))

\* os.path.join(app.config['UPLOAD_FOLDER'], filename) of the file names
\* that name a file
UploadPaths == {secure_filename(raw) : raw \in RawNames} \ {<<>>}

\* the uploads folder is empty, no request was received
UploadIdle ==
    /\ imports = "boot"
    /\ uploads = [f \in UploadPaths |-> 0]
    /\ up_pc = [t \in UpThreads |-> "idle"]
    /\ up_route = [t \in UpThreads |-> ""]
    /\ up_path = [t \in UpThreads |-> <<>>]
    /\ up_read = [t \in UpThreads |-> -1]
    /\ up_status = [t \in UpThreads |-> 0]

WebIdle ==
    /\ ConcIdle
    /\ RecentIdle
    /\ ApiIdle
    /\ RateIdle
    /\ AuthIdle
    /\ GeoIdle
    /\ UploadIdle

Init ==
    /\ pc = "idle" /\ sdays = 0 /\ driver = 0 /\ attempt = 0
    /\ data = <<>> /\ escaping = FALSE
    /\ tpc = "idle" /\ days = 0 /\ iter = 0 /\ day_ago = 0 /\ all_prices = <<>>
    /\ trends = EmptyDict
    /\ remote \in [1..MaxDays -> Pages]
    /\ marketOptions = 0 /\ created = 0 /\ quitCalls = <<>>
    /\ base = 0
    /\ kind = "none" /\ lastErr = "none" /\ ran = <<>> /\ okSteps = {}
    /\ tries = 0 /\ staleInStep = 0 /\ staleMax = 0 /\ otherFault = FALSE
    /\ staleSeen = FALSE /\ usedAfterStale = FALSE /\ sawSignal = FALSE
    /\ slept = FALSE /\ sleptWithSignal = FALSE /\ quitFailed = FALSE
    /\ calls = <<>> /\ dayData = NoDay /\ dayKind = NoKind
    /\ hardValues = {} /\ emptyOkValues = {}
    /\ cleanups = 0 /\ prevClean = NoPrev
    /\ WebIdle

(***************************************************************************)
(* scrape_market_data                                                      *)
(***************************************************************************)
\* the range test on entry
InRange(d) == 1 <= d /\ d <= MAX_DAYS_BACK

\* "except Exception" of scrape_market_data: every exception class raised
\* by the browser derives from Exception
Caught(e) == e \in Excs

\* a loop that gives up on staleness too
AbortsStepOnStale(err) == err \in {NoSuch, Stale}

\* a loop that treats a missing option like any other exception
AbortsStepNever(err) == FALSE

\* which except clause of _select_dropdown_option returns False at once
AbortsStep(err) == err = NoSuch

\* one iteration of the loop of _select_dropdown_option: err is what the
\* body raised ("none": nothing), att the loop variable
SelectIter(err, att) ==
    IF err = "none" THEN [ret |-> "True", attempt |-> att]
    ELSE IF AbortsStep(err) THEN [ret |-> "False", attempt |-> att]
    ELSE IF att + 1 < max_retries THEN [ret |-> "loop", attempt |-> att + 1]
    ELSE [ret |-> "False", attempt |-> att + 1]

\* a wait satisfied by the placeholder alone
OptionsReadyWithPlaceholder(n) == n >= 1

\* the condition of the second wait: more options than the placeholder
OptionsReady(n) == n > 1

\* a sequence that goes on to the date step without selecting the market
NextPcSkipMarket(p) ==
    CASE p = "selCommodity" -> "selState"
      [] p = "selState" -> "setDate"
      [] p = "selMarket" -> "setDate"

\* the statement after a successful selection
NextPc(p) ==
    CASE p = "selCommodity" -> "selState"
      [] p = "selState" -> "sleep"
      [] p = "selMarket" -> "setDate"

Max(a, b) == IF a >= b THEN a ELSE b

Started(step) ==
    ran' = IF \E i \in 1..Len(ran) : ran[i] = step THEN ran
           ELSE Append(ran, step)

Used == usedAfterStale' = (usedAfterStale \/ staleSeen)

\* an exception e raised inside the try block: the except clause returns []
\* when it catches e; the finally clause runs in both cases
Fail(e) ==
    /\ pc' = "finally"
    /\ escaping' = ~Caught(e)
    /\ data' = <<>>
    /\ kind' = "hard"

\* "return []" after a step returned False
ReturnEmpty ==
    /\ pc' = "finally"
    /\ escaping' = FALSE
    /\ data' = <<>>
    /\ kind' = "hard"

\* entry of scrape_market_data(days = d): the range test, self.driver = None
ScrapeEnter(d) ==
    /\ sdays' = d
    /\ attempt' = 0
    /\ escaping' = FALSE
    /\ data' = <<>>
    /\ IF InRange(d)
       THEN driver' = 0 /\ pc' = "setup" /\ kind' = "none"
       ELSE driver' = driver /\ pc' = "returned" /\ kind' = "invalid"
    /\ base' = created
    /\ lastErr' = "none" /\ ran' = <<>> /\ okSteps' = {}
    /\ tries' = 0 /\ staleInStep' = 0 /\ staleMax' = 0 /\ otherFault' = FALSE
    /\ staleSeen' = FALSE /\ usedAfterStale' = FALSE /\ sawSignal' = FALSE
    /\ slept' = FALSE /\ sleptWithSignal' = FALSE /\ quitFailed' = FALSE
    /\ cleanups' = 0
    /\ UNCHANGED <<envVars, allHist, prevClean, webVars>>

\* a direct call of scrape_market_data
CallScrape ==
    /\ tpc = "idle" /\ pc = "idle"
    /\ \E d \in DayInputs : ScrapeEnter(d)
    /\ UNCHANGED <<trendVars, trendHist>>

\* _setup_driver: webdriver.Chrome(...) launches the browser, then
\* set_page_load_timeout and implicitly_wait configure it; a
\* WebDriverException of either is logged and raised again
SetupDriver ==
    /\ pc = "setup"
    /\ \E out \in {"launchFails", "configFails", "ok"} :
         /\ created' = IF out = "launchFails" THEN created ELSE created + 1
         /\ quitCalls' = IF out = "launchFails" THEN quitCalls
                         ELSE Append(quitCalls, 0)
         /\ IF out = "ok"
            THEN /\ driver' = created + 1
                 /\ pc' = "get"
                 /\ UNCHANGED <<data, escaping, kind, otherFault>>
            ELSE /\ driver' = driver
                 /\ Fail(WebDriverExc)
                 /\ otherFault' = TRUE
    /\ UNCHANGED <<sdays, attempt, trendVars, remote, marketOptions, lastErr,
                   ran, okSteps, tries, staleInStep, staleMax, staleSeen,
                   usedAfterStale, sawSignal, slept, sleptWithSignal,
                   quitFailed, base, trendHist, allHist,
                   callerHist, webVars>>

\* self.driver.get(self.base_url)
Navigate ==
    /\ pc = "get"
    /\ Started("navigate")
    /\ \/ /\ pc' = "selCommodity"
          /\ marketOptions' = 1
          /\ okSteps' = okSteps \cup {"navigate"}
          /\ UNCHANGED <<data, escaping, kind, otherFault>>
       \/ /\ Fail(Timeout)
          /\ otherFault' = TRUE
          /\ UNCHANGED <<marketOptions, okSteps>>
    /\ UNCHANGED <<sdays, driver, attempt, trendVars, remote, created,
                   quitCalls, lastErr, tries, staleInStep, staleMax,
                   staleSeen, usedAfterStale, sawSignal, slept,
                   sleptWithSignal, quitFailed, base, trendHist, allHist,
                   callerHist, webVars>>

\* one attempt of _select_dropdown_option for ddlCommodity, ddlState or
\* ddlMarket, and what scrape_market_data does with the value returned
Select ==
    /\ pc \in SelectPcs
    /\ Started(pc)
    /\ Used
    /\ \E err \in {"none", Stale, NoSuch, Timeout, Other} :
         LET r == SelectIter(err, attempt)
             st == IF err = Stale THEN staleInStep + 1 ELSE staleInStep
         IN  /\ staleMax' = Max(staleMax, st)
             /\ staleSeen' = (staleSeen \/ err = Stale)
             /\ otherFault' = (otherFault \/ err \in {NoSuch, Timeout, Other})
             /\ CASE r.ret = "True" ->
                       /\ pc' = NextPc(pc)
                       /\ attempt' = 0
                       /\ tries' = 0
                       /\ staleInStep' = 0
                       /\ lastErr' = "none"
                       /\ okSteps' = okSteps \cup {pc}
                       /\ UNCHANGED <<data, escaping, kind>>
                  [] r.ret = "False" ->
                       /\ ReturnEmpty
                       /\ attempt' = r.attempt
                       /\ tries' = tries + 1
                       /\ staleInStep' = st
                       /\ lastErr' = err
                       /\ UNCHANGED okSteps
                  [] r.ret = "loop" ->
                       /\ attempt' = r.attempt
                       /\ tries' = tries + 1
                       /\ staleInStep' = st
                       /\ lastErr' = err
                       /\ UNCHANGED <<pc, data, escaping, kind, okSteps>>
    /\ UNCHANGED <<sdays, driver, trendVars, envVars, sawSignal, slept,
                   sleptWithSignal, quitFailed, base, trendHist, allHist,
                   callerHist, webVars>>

\* time.sleep(2) after the state was selected
Sleep ==
    /\ pc = "sleep"
    /\ Started("waitMarket")
    /\ slept' = TRUE
    /\ sleptWithSignal' = (marketOptions > 1)
    /\ pc' = "waitPresence"
    /\ UNCHANGED <<sdays, driver, attempt, data, escaping, trendVars, envVars,
                   kind, lastErr, okSteps, tries, staleInStep, staleMax,
                   otherFault, staleSeen, usedAfterStale, sawSignal,
                   quitFailed, base, trendHist, allHist,
                   callerHist, webVars>>

\* the site answers the postback of the state selection: ddlMarket is
\* repopulated
Postback ==
    /\ pc \in {"sleep", "waitPresence", "waitOptions"}
    /\ marketOptions = 1
    /\ marketOptions' = 2
    /\ UNCHANGED <<fetchVars, trendVars, remote, created, quitCalls,
                   fetchHist, trendHist, allHist,
                   callerHist, webVars>>

\* WebDriverWait(...).until(presence_of_element_located(ddlMarket))
WaitPresence ==
    /\ pc = "waitPresence"
    /\ Used
    /\ \/ /\ pc' = "waitOptions"
          /\ UNCHANGED <<data, escaping, kind, otherFault>>
       \/ /\ Fail(Timeout)
          /\ otherFault' = TRUE
    /\ UNCHANGED <<sdays, driver, attempt, trendVars, envVars, lastErr, ran,
                   okSteps, tries, staleInStep, staleMax, staleSeen, sawSignal,
                   slept, sleptWithSignal, quitFailed, base, trendHist, allHist,
                   callerHist, webVars>>

\* WebDriverWait(...).until(lambda d: len(Select(...).options) > 1): the
\* wait ends when the count exceeds 1, times out when it never does, and
\* lets a StaleElementReferenceException of the lambda through
WaitOptions ==
    /\ pc = "waitOptions"
    /\ Used
    /\ \/ /\ OptionsReady(marketOptions)
          /\ sawSignal' = (marketOptions > 1)
          /\ pc' = "selMarket"
          /\ okSteps' = okSteps \cup {"waitMarket"}
          /\ UNCHANGED <<data, escaping, kind, otherFault, staleSeen>>
       \/ /\ ~OptionsReady(marketOptions)
          /\ Fail(Timeout)
          /\ otherFault' = TRUE
          /\ UNCHANGED <<sawSignal, okSteps, staleSeen>>
       \/ /\ Fail(Stale)
          /\ otherFault' = TRUE
          /\ staleSeen' = TRUE
          /\ UNCHANGED <<sawSignal, okSteps>>
    /\ UNCHANGED <<sdays, driver, attempt, trendVars, envVars, lastErr, ran,
                   tries, staleInStep, staleMax, slept, sleptWithSignal,
                   quitFailed, base, trendHist, allHist,
                   callerHist, webVars>>

\* _set_date_input: any exception makes it return False
SetDate ==
    /\ pc = "setDate"
    /\ Started("setDate")
    /\ Used
    /\ \/ /\ pc' = "click"
          /\ okSteps' = okSteps \cup {"setDate"}
          /\ UNCHANGED <<data, escaping, kind, otherFault>>
       \/ /\ ReturnEmpty
          /\ otherFault' = TRUE
          /\ UNCHANGED okSteps
    /\ UNCHANGED <<sdays, driver, attempt, trendVars, envVars, lastErr, tries,
                   staleInStep, staleMax, staleSeen, sawSignal, slept,
                   sleptWithSignal, quitFailed, base, trendHist, allHist,
                   callerHist, webVars>>

\* _click_button(btnGo): any exception makes it return False
Click ==
    /\ pc = "click"
    /\ Started("click")
    /\ Used
    /\ \/ /\ pc' = "extract"
          /\ okSteps' = okSteps \cup {"click"}
          /\ UNCHANGED <<data, escaping, kind, otherFault>>
       \/ /\ ReturnEmpty
          /\ otherFault' = TRUE
          /\ UNCHANGED okSteps
    /\ UNCHANGED <<sdays, driver, attempt, trendVars, envVars, lastErr, tries,
                   staleInStep, staleMax, staleSeen, sawSignal, slept,
                   sleptWithSignal, quitFailed, base, trendHist, allHist,
                   callerHist, webVars>>

\* an extraction that returns rows only to the first fetch of a key
ExtractResultOnlyNew(page) ==
    IF prevClean.day # 0 THEN <<>>
    ELSE IF page.table THEN ParseTable(page.rows) ELSE <<>>

\* an extraction that never finds the table
ExtractResultNever(page) == <<>>

\* _extract_table_data without unexpected exceptions: the table is parsed
\* when its element appears, the TimeoutException of the wait gives []
ExtractResult(page) == IF page.table THEN ParseTable(page.rows) ELSE <<>>

\* _extract_table_data and "return data": the table is parsed when its
\* element appears; a TimeoutException of the wait and any other exception
\* make it return []
Extract ==
    /\ pc = "extract"
    /\ Started("extract")
    /\ Used
    /\ pc' = "finally"
    /\ escaping' = FALSE
    /\ \/ /\ data' = ExtractResult(remote[sdays])
          /\ kind' = "ok"
          /\ okSteps' = okSteps \cup {"extract"}
          /\ UNCHANGED otherFault
       \/ /\ data' = <<>>
          /\ kind' = "hard"
          /\ otherFault' = TRUE
          /\ UNCHANGED okSteps
    /\ UNCHANGED <<sdays, driver, attempt, trendVars, envVars, lastErr, tries,
                   staleInStep, staleMax, staleSeen, sawSignal, slept,
                   sleptWithSignal, quitFailed, base, trendHist, allHist,
                   callerHist, webVars>>

\* a cleanup that drops the reference without quitting the browser
CleanupWithoutQuit ==
    /\ driver' = 0
    /\ UNCHANGED <<quitCalls, quitFailed>>

\* a cleanup that keeps the reference to the browser it has quit
CleanupKeepsDriver ==
    /\ IF driver # 0
       THEN /\ quitCalls' = [quitCalls EXCEPT ![driver] = @ + 1]
            /\ \E f \in BOOLEAN : quitFailed' = (quitFailed \/ f)
       ELSE UNCHANGED <<quitCalls, quitFailed>>
    /\ driver' = driver

\* cleanup(): quit() is called when self.driver is set, its exception is
\* logged, self.driver becomes None
Cleanup ==
    /\ IF driver # 0
       THEN /\ quitCalls' = [quitCalls EXCEPT ![driver] = @ + 1]
            /\ \E f \in BOOLEAN : quitFailed' = (quitFailed \/ f)
       ELSE UNCHANGED <<quitCalls, quitFailed>>
    /\ driver' = 0

\* the finally clause of scrape_market_data, then its return
Finally ==
    /\ pc = "finally"
    /\ Cleanup
    /\ cleanups' = cleanups + 1
    /\ pc' = IF escaping THEN "raised" ELSE "returned"
    /\ hardValues' = IF kind = "hard" /\ ~escaping
                     THEN hardValues \cup {data} ELSE hardValues
    /\ emptyOkValues' = IF kind = "ok" /\ Len(data) = 0
                        THEN emptyOkValues \cup {data} ELSE emptyOkValues
    /\ UNCHANGED <<sdays, attempt, data, escaping, trendVars, remote,
                   marketOptions, created, kind, lastErr, ran, okSteps, tries,
                   staleInStep, staleMax, otherFault, staleSeen,
                   usedAfterStale, sawSignal, slept, sleptWithSignal,
                   base, trendHist, prevClean, webVars>>

(***************************************************************************)
(* get_price_trends                                                        *)
(***************************************************************************)
\* a loop that starts with the oldest day
DayRangeOldestFirst(n) == [i \in 1..n |-> n + 1 - i]

\* range(1, days + 1): the values of day_ago, in the order of the loop
DayRange(n) == [i \in 1..n |-> i]

\* modal_price_str of a non-empty daily_data: the Modal_Price of its first
\* record without commas
ModalStr(daily) == RemoveCommas(daily[1].Modal_Price)

\* all_prices after the loop body ran on daily_data
Collect(prices, daily) ==
    IF daily = <<>> THEN prices
    ELSE IF FloatOk(ModalStr(daily))
         THEN Append(prices, FloatOf(ModalStr(daily)))
         ELSE prices

\* a list left in the order of collection
ReverseOmitted(q) == q

\* list.reverse()
Reverse(q) == [i \in 1..Len(q) |-> q[Len(q) + 1 - i]]

RECURSIVE SeqSum(_)
SeqSum(q) == IF q = <<>> THEN 0 ELSE Head(q) + SeqSum(Tail(q))

SeqMax(q) == CHOOSE x \in {q[i] : i \in 1..Len(q)} :
                 \A j \in 1..Len(q) : q[j] <= x

SeqMin(q) == CHOOSE x \in {q[i] : i \in 1..Len(q)} :
                 \A j \in 1..Len(q) : q[j] >= x

\* n / d rounded to the nearest integer, ties to even (d > 0)
RoundHalfEven(n, d) ==
    LET q == n \div d
        r == n % d
    IN  IF 2 * r < d THEN q
        ELSE IF 2 * r > d THEN q + 1
        ELSE IF q % 2 = 0 THEN q ELSE q + 1

\* a comparison of the first price with the last
TrendOfSwapped(p) ==
    IF Len(p) > 1
    THEN IF p[1] - p[Len(p)] > 0 THEN "upward"
         ELSE IF p[1] - p[Len(p)] < 0 THEN "downward"
         ELSE "stable"
    ELSE "stable"

\* the trend of a chronological non-empty price list
TrendOf(p) ==
    IF Len(p) > 1
    THEN IF p[Len(p)] - p[1] > 0 THEN "upward"
         ELSE IF p[Len(p)] - p[1] < 0 THEN "downward"
         ELSE "stable"
    ELSE "stable"

\* a change taken relative to the last price
PercentOfLast(p) ==
    IF Len(p) > 1 /\ p[Len(p)] # 0
    THEN RoundHalfEven((p[Len(p)] - p[1]) * 10000, p[Len(p)])
    ELSE 0

\* round(percentage_change, 2), in hundredths of a percent
PercentOf(p) ==
    IF Len(p) > 1 /\ p[1] # 0
    THEN RoundHalfEven((p[Len(p)] - p[1]) * 10000, p[1])
    ELSE 0

\* the dictionary returned for the chronological price list p; the average
\* is kept as the pair sum, count
Summary(p, n) ==
    [empty |-> FALSE,
     period |-> n,
     trend_data_points |-> Len(p),
     highest_price |-> SeqMax(p),
     lowest_price |-> SeqMin(p),
     average_price |-> <<SeqSum(p), Len(p)>>,
     latest_price |-> p[Len(p)],
     trend |-> TrendOf(p),
     percentage_change |-> PercentOf(p)]

\* a test that never takes the early return
NoPricesNever(p) == FALSE

\* "if not all_prices"
NoPrices(p) == p = <<>>

\* a call of get_price_trends(days = n)
CallTrends ==
    /\ tpc = "idle" /\ pc = "idle"
    /\ \E n \in 0..MaxDays : days' = n
    /\ tpc' = "loop"
    /\ iter' = 0
    /\ day_ago' = 0
    /\ all_prices' = <<>>
    /\ trends' = EmptyDict
    /\ calls' = <<>> /\ dayData' = NoDay /\ dayKind' = NoKind
    /\ prevClean' = NoPrev
    /\ UNCHANGED <<fetchVars, envVars, fetchHist, allHist, cleanups, webVars>>

\* the loop takes the next day_ago and calls scrape_market_data
TrendsCall ==
    /\ tpc = "loop"
    /\ iter < Len(DayRange(days))
    /\ day_ago' = DayRange(days)[iter + 1]
    /\ ScrapeEnter(DayRange(days)[iter + 1])
    /\ calls' = Append(calls, DayRange(days)[iter + 1])
    /\ tpc' = "calling"
    /\ UNCHANGED <<days, iter, all_prices, trends, dayData, dayKind>>

\* the loop body after scrape_market_data returned daily_data
TrendsCollect ==
    /\ tpc = "calling"
    /\ pc = "returned"
    /\ all_prices' = Collect(all_prices, data)
    /\ dayData' = [dayData EXCEPT ![day_ago] = data]
    /\ dayKind' = [dayKind EXCEPT ![day_ago] = kind]
    /\ iter' = iter + 1
    /\ tpc' = "loop"
    /\ pc' = "idle"
    /\ UNCHANGED <<sdays, driver, attempt, data, escaping, days, day_ago,
                   trends, envVars, fetchHist, calls, allHist,
                   callerHist, webVars>>

\* after the loop: {} without prices, otherwise the lists are reversed and
\* the summary is built; max() of an empty list raises ValueError
TrendsFinish ==
    /\ tpc = "loop"
    /\ iter = Len(DayRange(days))
    /\ IF NoPrices(all_prices)
       THEN trends' = EmptyDict /\ tpc' = "done" /\ UNCHANGED all_prices
       ELSE IF all_prices = <<>>
       THEN trends' = EmptyDict /\ tpc' = "raised" /\ UNCHANGED all_prices
       ELSE /\ all_prices' = Reverse(all_prices)
            /\ trends' = Summary(Reverse(all_prices), days)
            /\ tpc' = "done"
    /\ UNCHANGED <<fetchVars, days, iter, day_ago, envVars, fetchHist,
                   trendHist, allHist,
                   callerHist, webVars>>

(***************************************************************************)
(* The caller                                                              *)
(***************************************************************************)
\* the caller takes the value returned and may call again; the browsers of
\* the finished call are not referenced any more
ForgetCall ==
    /\ pc' = "idle" /\ sdays' = 0 /\ attempt' = 0
    /\ data' = <<>> /\ escaping' = FALSE
    /\ tpc' = "idle" /\ days' = 0 /\ iter' = 0 /\ day_ago' = 0
    /\ all_prices' = <<>> /\ trends' = EmptyDict
    /\ marketOptions' = 0 /\ created' = 0 /\ quitCalls' = <<>>
    /\ base' = 0
    /\ kind' = "none" /\ lastErr' = "none" /\ ran' = <<>> /\ okSteps' = {}
    /\ tries' = 0 /\ staleInStep' = 0 /\ staleMax' = 0 /\ otherFault' = FALSE
    /\ staleSeen' = FALSE /\ usedAfterStale' = FALSE /\ sawSignal' = FALSE
    /\ slept' = FALSE /\ sleptWithSignal' = FALSE /\ quitFailed' = FALSE
    /\ calls' = <<>> /\ dayData' = NoDay /\ dayKind' = NoKind
    /\ cleanups' = 0
    /\ UNCHANGED <<driver, remote, allHist, webVars>>

\* a fetch without any injected fault
FaultFree == kind = "ok" /\ ~otherFault /\ ~staleSeen

\* the caller of scrape_market_data goes on
ScrapeReturn ==
    /\ tpc = "idle"
    /\ pc = "returned"
    /\ ForgetCall
    /\ prevClean' = IF FaultFree THEN [day |-> sdays, value |-> data]
                    ELSE NoPrev

\* the caller of get_price_trends goes on
TrendsReturn ==
    /\ tpc = "done"
    /\ ForgetCall
    /\ prevClean' = NoPrev

\* a further cleanup() after the call: the explicit scraper.cleanup() of
\* the caller, or __del__
CleanupAgain ==
    /\ \/ tpc = "idle" /\ pc = "returned"
       \/ tpc = "done"
    /\ cleanups < MaxCleanups
    /\ Cleanup
    /\ cleanups' = cleanups + 1
    /\ UNCHANGED <<pc, sdays, attempt, data, escaping, trendVars, remote,
                   marketOptions, created, base, kind, lastErr, ran, okSteps,
                   tries, staleInStep, staleMax, otherFault, staleSeen,
                   usedAfterStale, sawSignal, slept, sleptWithSignal,
                   trendHist, allHist, prevClean, webVars>>

Next ==
    \/ CallScrape
    \/ SetupDriver
    \/ Navigate
    \/ Select
    \/ Sleep
    \/ Postback
    \/ WaitPresence
    \/ WaitOptions
    \/ SetDate
    \/ Click
    \/ Extract
    \/ Finally
    \/ CallTrends
    \/ TrendsCall
    \/ TrendsCollect
    \/ TrendsFinish
    \/ ScrapeReturn
    \/ TrendsReturn
    \/ CleanupAgain

Spec == Init /\ [][Next]_vars

(***************************************************************************)
(* The trend computation on its own: get_price_trends at the end of its    *)
(* loop, with every price list the loop can have collected                 *)
(***************************************************************************)
\* values of the collected prices
PriceValues == {0, 2000, 2100, 2150}

RECURSIVE ListsUpTo(_)
ListsUpTo(n) ==
    IF n = 0 THEN {<<>>}
    ELSE ListsUpTo(n - 1) \cup
         {Append(q, v) : q \in {l \in ListsUpTo(n - 1) : Len(l) = n - 1},
                         v \in PriceValues}

InitTrend ==
    /\ pc = "idle" /\ sdays = 0 /\ driver = 0 /\ attempt = 0
    /\ data = <<>> /\ escaping = FALSE
    /\ tpc = "loop"
    /\ all_prices \in ListsUpTo(MaxPrices)
    /\ days \in Len(all_prices)..(MaxPrices + 2)
    /\ iter = days /\ day_ago = days
    /\ trends = EmptyDict
    /\ remote = [d \in 1..MaxDays |-> Page(FALSE, <<>>)]
    /\ marketOptions = 0 /\ created = 0 /\ quitCalls = <<>>
    /\ base = 0
    /\ kind = "none" /\ lastErr = "none" /\ ran = <<>> /\ okSteps = {}
    /\ tries = 0 /\ staleInStep = 0 /\ staleMax = 0 /\ otherFault = FALSE
    /\ staleSeen = FALSE /\ usedAfterStale = FALSE /\ sawSignal = FALSE
    /\ slept = FALSE /\ sleptWithSignal = FALSE /\ quitFailed = FALSE
    /\ calls = [i \in 1..days |-> i] /\ dayData = NoDay /\ dayKind = NoKind
    /\ hardValues = {} /\ emptyOkValues = {}
    /\ cleanups = 0 /\ prevClean = NoPrev
    /\ WebIdle

NextTrend ==
    \/ TrendsFinish
    \/ TrendsReturn

TrendSpec == InitTrend /\ [][NextTrend]_vars

(***************************************************************************)
(* Two threads in scrape_market_data. Each thread calls the method on one  *)
(* MarketDataScraper object, the two objects may be the same one. A step   *)
(* is one read or write of self.driver with the browser call that follows. *)
(***************************************************************************)
\* the state of the single-threaded scraper before any call
ScraperIdle ==
    /\ pc = "idle" /\ sdays = 0 /\ driver = 0 /\ attempt = 0
    /\ data = <<>> /\ escaping = FALSE
    /\ tpc = "idle" /\ days = 0 /\ iter = 0 /\ day_ago = 0 /\ all_prices = <<>>
    /\ trends = EmptyDict
    /\ remote = [d \in 1..MaxDays |-> Page(FALSE, <<>>)]
    /\ marketOptions = 0 /\ created = 0 /\ quitCalls = <<>>
    /\ base = 0
    /\ kind = "none" /\ lastErr = "none" /\ ran = <<>> /\ okSteps = {}
    /\ tries = 0 /\ staleInStep = 0 /\ staleMax = 0 /\ otherFault = FALSE
    /\ staleSeen = FALSE /\ usedAfterStale = FALSE /\ sawSignal = FALSE
    /\ slept = FALSE /\ sleptWithSignal = FALSE /\ quitFailed = FALSE
    /\ calls = <<>> /\ dayData = NoDay /\ dayKind = NoKind
    /\ hardValues = {} /\ emptyOkValues = {}
    /\ cleanups = 0 /\ prevClean = NoPrev

InitWeb == ScraperIdle /\ WebIdle

\* the variables a thread of the concurrent fetches leaves alone
notConc ==
    <<scraperVars, recentVars, apiVars, rateVars, authVars,
      geoVars, uploadVars>>

\* the form steps between the launch and the finally clause, each reads
\* self.driver anew: get, the form, the extraction
ThNextPc(p) ==
    IF p = "get" THEN "form" ELSE IF p = "form" THEN "extract" ELSE "finally"

\* entry of scrape_market_data on object o with days in range:
\* self.driver = None
ThEnter(t) ==
    /\ th_pc[t] = "idle"
    /\ \E o \in Objects :
        /\ th_obj' = [th_obj EXCEPT ![t] = o]
        /\ self_driver' = [self_driver EXCEPT ![o] = 0]
    /\ th_pc' = [th_pc EXCEPT ![t] = "setup"]
    /\ UNCHANGED <<launched, quits, drove, notConc>>

\* self.driver = self._setup_driver(): webdriver.Chrome may raise, the
\* configuration of the launched browser may raise, otherwise the browser
\* is assigned
ThSetup(t) ==
    /\ th_pc[t] = "setup"
    /\ \/ /\ th_pc' = [th_pc EXCEPT ![t] = "finally"]
          /\ UNCHANGED <<self_driver, launched, quits>>
       \/ /\ launched' = Append(launched, t)
          /\ quits' = Append(quits, 0)
          /\ th_pc' = [th_pc EXCEPT ![t] = "finally"]
          /\ UNCHANGED self_driver
       \/ /\ launched' = Append(launched, t)
          /\ quits' = Append(quits, 0)
          /\ self_driver' = [self_driver EXCEPT ![th_obj[t]] = Len(launched) + 1]
          /\ th_pc' = [th_pc EXCEPT ![t] = "get"]
    /\ UNCHANGED <<th_obj, drove, notConc>>

\* a form step: self.driver is read and the step runs on that browser; the
\* step fails on None and may fail on a browser
ThStep(t) ==
    /\ th_pc[t] \in {"get", "form", "extract"}
    /\ IF self_driver[th_obj[t]] = 0
       THEN /\ th_pc' = [th_pc EXCEPT ![t] = "finally"]
            /\ UNCHANGED drove
       ELSE /\ drove' = [drove EXCEPT ![t] = @ \cup {self_driver[th_obj[t]]}]
            /\ \E ok \in BOOLEAN :
                th_pc' = [th_pc EXCEPT ![t] = IF ok THEN ThNextPc(th_pc[t])
                                               ELSE "finally"]
    /\ UNCHANGED <<th_obj, self_driver, launched, quits, notConc>>

\* cleanup(): if self.driver
ThCleanupTest(t) ==
    /\ th_pc[t] = "finally"
    /\ th_pc' = [th_pc EXCEPT ![t] = IF self_driver[th_obj[t]] # 0
                                     THEN "quit" ELSE "returned"]
    /\ UNCHANGED <<th_obj, self_driver, launched, quits, drove, notConc>>

\* cleanup(): self.driver.quit(); self.driver is read again, the
\* AttributeError on None is caught like an exception of quit()
ThQuit(t) ==
    /\ th_pc[t] = "quit"
    /\ IF self_driver[th_obj[t]] # 0
       THEN quits' = [quits EXCEPT ![self_driver[th_obj[t]]] = @ + 1]
       ELSE UNCHANGED quits
    /\ th_pc' = [th_pc EXCEPT ![t] = "setNone"]
    /\ UNCHANGED <<th_obj, self_driver, launched, drove, notConc>>

\* cleanup(): finally self.driver = None, then scrape_market_data returns
ThSetNone(t) ==
    /\ th_pc[t] = "setNone"
    /\ self_driver' = [self_driver EXCEPT ![th_obj[t]] = 0]
    /\ th_pc' = [th_pc EXCEPT ![t] = "returned"]
    /\ UNCHANGED <<th_obj, launched, quits, drove, notConc>>

NextConc ==
    \/ \E t \in Threads : ThEnter(t)
    \/ \E t \in Threads : ThSetup(t)
    \/ \E t \in Threads : ThStep(t)
    \/ \E t \in Threads : ThCleanupTest(t)
    \/ \E t \in Threads : ThQuit(t)
    \/ \E t \in Threads : ThSetNone(t)

ConcSpec == InitWeb /\ [][NextConc]_vars

(***************************************************************************)
(* findMostRecentData: the search for the latest day with data, over the   *)
(* single-day fetch                                                        *)
(***************************************************************************)
notRecent ==
    <<scraperVars, concVars, apiVars, rateVars, authVars,
      geoVars, uploadVars>>

\* pages served for the days probed: no table, a table with the header
\* only, a table with one record
RecentPages ==
    {Page(FALSE, <<>>), Page(TRUE, <<Header>>),
     Page(TRUE, <<Header, Row(11, Pune, P2250c)>>)}

\* a call of findMostRecentData(baseKey, m) against a site
RecentCall ==
    /\ rpc = "idle"
    /\ \E m \in 0..MaxCheck : max_days_to_check' = m
    /\ site' \in [1..MaxCheck -> RecentPages]
    /\ days_back' = 0
    /\ probes' = <<>>
    /\ recent' = <<>>
    /\ probeFault' = FALSE
    /\ rpc' = "loop"
    /\ UNCHANGED notRecent

\* one iteration: the fetch of the next day; a hard failure (a fault, or a
\* day out of range) ends the search with the empty result, a non-empty
\* result is returned, an empty one leads to the next day
RecentProbe ==
    /\ rpc = "loop"
    /\ days_back < max_days_to_check
    /\ days_back' = days_back + 1
    /\ probes' = Append(probes, days_back + 1)
    /\ \E fault \in BOOLEAN :
        /\ probeFault' = fault
        /\ IF fault \/ ~InRange(days_back + 1)
           THEN recent' = <<>> /\ rpc' = "done"
           ELSE IF ExtractResult(site[days_back + 1]) # <<>>
           THEN /\ recent' = ExtractResult(site[days_back + 1])
                /\ rpc' = "done"
           ELSE recent' = <<>> /\ rpc' = "loop"
    /\ UNCHANGED <<max_days_to_check, site, notRecent>>

\* every day up to max_days_to_check was empty
RecentExhausted ==
    /\ rpc = "loop"
    /\ days_back = max_days_to_check
    /\ recent' = <<>>
    /\ rpc' = "done"
    /\ UNCHANGED <<max_days_to_check, days_back, site, probes, probeFault,
                   notRecent>>

\* the caller holds the result and may call again
RecentReturn ==
    /\ rpc = "done"
    /\ rpc' = "idle"
    /\ max_days_to_check' = 0
    /\ days_back' = 0
    /\ site' = <<>>
    /\ probes' = <<>>
    /\ probeFault' = FALSE
    /\ UNCHANGED <<recent, notRecent>>

NextRecent ==
    \/ RecentCall
    \/ RecentProbe
    \/ RecentExhausted
    \/ RecentReturn

RecentSpec == InitWeb /\ [][NextRecent]_vars

(***************************************************************************)
(* /api/market-trends (src/server/app.py) over the table market_trends     *)
(* (src/server/database.py); one request is handled at a time              *)
(***************************************************************************)
notApi ==
    <<scraperVars, concVars, recentVars, rateVars, authVars,
      geoVars, uploadVars>>

\* dict.get(f)
Get(d, f) == IF f \in DOMAIN d THEN d[f] ELSE None

\* the dict get_price_trends returns when it found prices
TrendsDict(k) ==
    [commodity |-> k[1], state |-> k[2], market |-> k[3],
     period |-> "Last 7 days", trend_data_points |-> "2",
     highest_price |-> "2250", lowest_price |-> "2100",
     average_price |-> "2175", latest_price |-> "2250", trend |-> "upward",
     percentage_change |-> "7.14", last_updated |-> "now"]

MockMessage == "Using mock data - market scraper not available"

\* the mock_data dict of the handler
MockData(k) ==
    [commodity |-> k[1], state |-> k[2], market |-> k[3],
     latest_price |-> "2450", trend |-> "upward",
     percentage_change |-> "8.5", data_points_found |-> "15",
     average_price |-> "2320", highest_price |-> "2650",
     lowest_price |-> "2100", prices |-> "[5 prices]",
     message |-> MockMessage]

\* the row store_market_trends inserts
StoredRow(k, d) ==
    [commodity |-> k[1], state |-> k[2], market |-> k[3],
     latest_price |-> Get(d, "latest_price"),
     trend |-> Get(d, "trend"),
     percentage_change |-> Get(d, "percentage_change"),
     data_points_found |-> Get(d, "data_points_found"),
     average_price |-> Get(d, "average_price"),
     highest_price |-> Get(d, "highest_price"),
     lowest_price |-> Get(d, "lowest_price"),
     prices_data |-> IF "prices" \in DOMAIN d THEN d["prices"] ELSE "[]",
     message |-> Get(d, "message")]

\* the rows of a key, oldest first
RowsOf(k) ==
    SelectSeq(market_trends,
              LAMBDA r : r.commodity = k[1] /\ r.state = k[2]
                         /\ r.market = k[3])

\* the dict get_market_trends builds from a row
RowAsDict(r) ==
    [commodity |-> r.commodity, state |-> r.state, market |-> r.market,
     latest_price |-> r.latest_price, trend |-> r.trend,
     percentage_change |-> r.percentage_change,
     data_points_found |-> r.data_points_found,
     average_price |-> r.average_price, highest_price |-> r.highest_price,
     lowest_price |-> r.lowest_price,
     prices |-> r.prices_data, message |-> r.message]

\* DatabaseManager.get_market_trends: the newest row of the key, or None
\* (here {})
CachedData(k) ==
    IF RowsOf(k) = <<>> THEN EmptyTrends
    ELSE RowAsDict(RowsOf(k)[Len(RowsOf(k))])

\* a cache test that wants a price in the row
CacheHitIfPriced(cached) ==
    cached # EmptyTrends /\ cached["latest_price"] # None

\* if cached_data
CacheHit(cached) == cached # EmptyTrends

\* all([commodity, state, market])
AllGiven(k) == k[1] # "" /\ k[2] # "" /\ k[3] # ""

\* the import block of app.py: the name MarketDataScraper is bound to the
\* class, or left unbound when an import up to market_scrapper fails
ImportModules ==
    /\ scraperName = "boot"
    /\ scraperName' \in {"bound", "unbound"}
    /\ UNCHANGED <<market_trends, served, scrapes, lastReq, notApi>>

\* what the handler does with a cache miss: NameError of an unbound name
\* gives the 500 response; an exception in the try block of the scraper
\* gives the mock data; otherwise the dict of get_price_trends is stored and
\* returned
FreshOrMock(k, outcome) ==
    IF scraperName = "unbound"
    THEN /\ UNCHANGED <<market_trends, scrapes>>
         /\ lastReq' = [key |-> k, hadRow |-> FALSE, scraped |-> FALSE,
                     outcome |-> "unbound", status |-> 500,
                     body |-> [error |-> "An error occurred"]]
    ELSE /\ scrapes' = [scrapes EXCEPT ![k] = @ + 1]
         /\ IF outcome = "raise"
            THEN /\ market_trends' =
                        Append(market_trends, StoredRow(k, MockData(k)))
                 /\ lastReq' = [key |-> k, hadRow |-> FALSE, scraped |-> TRUE,
                             outcome |-> outcome, status |-> 200,
                             body |-> MockData(k)]
            ELSE LET trends_ == IF outcome = "empty" THEN EmptyTrends
                                ELSE TrendsDict(k)
                 IN  /\ market_trends' =
                            Append(market_trends, StoredRow(k, trends_))
                     /\ lastReq' = [key |-> k, hadRow |-> FALSE,
                                 scraped |-> TRUE, outcome |-> outcome,
                                 status |-> 200, body |-> trends_]

\* one request to /api/market-trends
MarketTrendsRequest ==
    /\ scraperName \in {"bound", "unbound"}
    /\ served < MaxRequests
    /\ served' = served + 1
    /\ \E k \in Keys \cup {<<"Onion", "", "Pune">>},
          outcome \in {"trends", "empty", "raise"} :
        IF ~AllGiven(k)
        THEN /\ lastReq' = [key |-> k, hadRow |-> FALSE, scraped |-> FALSE,
                         outcome |-> "invalid", status |-> 400,
                         body |-> [error |-> "Missing required parameters"]]
             /\ UNCHANGED <<market_trends, scrapes>>
        ELSE IF CacheHit(CachedData(k))
        THEN /\ lastReq' = [key |-> k, hadRow |-> TRUE, scraped |-> FALSE,
                         outcome |-> "cached", status |-> 200,
                         body |-> CachedData(k)]
             /\ UNCHANGED <<market_trends, scrapes>>
        ELSE FreshOrMock(k, outcome)
    /\ UNCHANGED <<scraperName, notApi>>

NextApi ==
    \/ ImportModules
    \/ MarketTrendsRequest

ApiSpec == InitWeb /\ [][NextApi]_vars

(***************************************************************************)
(* rate_limit (src/server/middleware.py)                                   *)
(***************************************************************************)
notRate ==
    <<scraperVars, concVars, recentVars, apiVars, authVars,
      geoVars, uploadVars>>

\* the comprehension of "Clean old requests"
Cleaned(times, t) ==
    SelectSeq(times, LAMBDA req_time : t - req_time < window_seconds)

\* a test that lets one more request pass
LimitedAbove(times) == Len(times) > max_requests

\* "Check rate limit"
Limited(times) == Len(times) >= max_requests

\* the requests admitted for ip in the window that ends at time t
InWindow(ip, t) ==
    Len(SelectSeq(admitted[ip],
                  LAMBDA a : t - a < window_seconds /\ a <= t))

\* @rate_limit(max_requests, window_seconds) is applied to an endpoint
Decorate ==
    /\ rl_pc = [t \in RlThreads |-> "undecorated"]
    /\ max_requests' \in 1..MaxQuota
    /\ window_seconds' \in 1..MaxWindow
    /\ rl_pc' = [t \in RlThreads |-> "idle"]
    /\ UNCHANGED <<now, rate_limit_data, client_ip, current_time, old_times,
                   rl_status, admitted, arrival, notRate>>

\* time passes
Tick ==
    /\ now < MaxTime
    /\ now' = now + 1
    /\ UNCHANGED <<max_requests, window_seconds, rate_limit_data, rl_pc,
                   client_ip, current_time, old_times, rl_status, admitted,
                   arrival, notRate>>

\* wrapper for one request handled alone: clean, check, append, handler
RateLimited ==
    /\ rl_pc[1] = "idle"
    /\ \E ip \in Ips :
        /\ arrival' = [ip |-> ip, inWindow |-> InWindow(ip, now),
                       admittedBefore |-> Len(admitted[ip])]
        /\ IF Limited(Cleaned(rate_limit_data[ip], now))
           THEN /\ rate_limit_data' =
                    [rate_limit_data EXCEPT
                        ![ip] = Cleaned(rate_limit_data[ip], now)]
                /\ rl_status' = [rl_status EXCEPT ![1] = 429]
                /\ UNCHANGED admitted
           ELSE /\ rate_limit_data' =
                    [rate_limit_data EXCEPT
                        ![ip] = Append(Cleaned(rate_limit_data[ip], now), now)]
                /\ rl_status' = [rl_status EXCEPT ![1] = 200]
                /\ admitted' = [admitted EXCEPT ![ip] = Append(@, now)]
    /\ UNCHANGED <<max_requests, window_seconds, now, rl_pc, client_ip,
                   current_time, old_times, notRate>>

NextRate ==
    \/ Decorate
    \/ Tick
    \/ RateLimited

RateSpec == InitWeb /\ [][NextRate]_vars

(***************************************************************************)
(* rate_limit with two request threads: a step is one read or write of     *)
(* wrapper._rate_limit_data[client_ip]                                     *)
(***************************************************************************)
\* number of admitted requests of the clients in S
RECURSIVE TotalAdmitted(_)
TotalAdmitted(S) ==
    IF S = {} THEN 0
    ELSE LET ip == CHOOSE x \in S : TRUE
         IN  Len(admitted[ip]) + TotalAdmitted(S \ {ip})

\* client_ip = request.remote_addr, current_time = time.time()
RlArrive(t) ==
    /\ rl_pc[t] = "idle"
    /\ TotalAdmitted(Ips) < MaxAdmitted
    /\ \E ip \in Ips : client_ip' = [client_ip EXCEPT ![t] = ip]
    /\ current_time' = [current_time EXCEPT ![t] = now]
    /\ rl_pc' = [rl_pc EXCEPT ![t] = "clean"]
    /\ UNCHANGED <<max_requests, window_seconds, now, rate_limit_data,
                   old_times, rl_status, admitted, arrival, notRate>>

\* the comprehension reads the list of the client
RlReadOld(t) ==
    /\ rl_pc[t] = "clean"
    /\ old_times' = [old_times EXCEPT ![t] = rate_limit_data[client_ip[t]]]
    /\ rl_pc' = [rl_pc EXCEPT ![t] = "assign"]
    /\ UNCHANGED <<max_requests, window_seconds, now, rate_limit_data,
                   client_ip, current_time, rl_status, admitted, arrival,
                   notRate>>

\* the cleaned list is assigned
RlAssignCleaned(t) ==
    /\ rl_pc[t] = "assign"
    /\ rate_limit_data' =
        [rate_limit_data EXCEPT
            ![client_ip[t]] = Cleaned(old_times[t], current_time[t])]
    /\ old_times' = [old_times EXCEPT ![t] = <<>>]
    /\ rl_pc' = [rl_pc EXCEPT ![t] = "check"]
    /\ UNCHANGED <<max_requests, window_seconds, now, client_ip,
                   current_time, rl_status, admitted, arrival, notRate>>

\* the length test, with the 429 response
RlCheck(t) ==
    /\ rl_pc[t] = "check"
    /\ IF Limited(rate_limit_data[client_ip[t]])
       THEN /\ rl_status' = [rl_status EXCEPT ![t] = 429]
            /\ rl_pc' = [rl_pc EXCEPT ![t] = "idle"]
            /\ client_ip' = [client_ip EXCEPT ![t] = ""]
            /\ current_time' = [current_time EXCEPT ![t] = 0]
       ELSE /\ rl_pc' = [rl_pc EXCEPT ![t] = "append"]
            /\ UNCHANGED <<rl_status, client_ip, current_time>>
    /\ UNCHANGED <<max_requests, window_seconds, now, rate_limit_data,
                   old_times, admitted, arrival, notRate>>

\* the append, then the handler
RlAppend(t) ==
    /\ rl_pc[t] = "append"
    /\ rate_limit_data' =
        [rate_limit_data EXCEPT ![client_ip[t]] = Append(@, current_time[t])]
    /\ admitted' = [admitted EXCEPT ![client_ip[t]] = Append(@, current_time[t])]
    /\ rl_status' = [rl_status EXCEPT ![t] = 200]
    /\ rl_pc' = [rl_pc EXCEPT ![t] = "idle"]
    /\ client_ip' = [client_ip EXCEPT ![t] = ""]
    /\ current_time' = [current_time EXCEPT ![t] = 0]
    /\ UNCHANGED <<max_requests, window_seconds, now, old_times, arrival,
                   notRate>>

NextRateConc ==
    \/ Decorate
    \/ Tick
    \/ \E t \in RlThreads : RlArrive(t)
    \/ \E t \in RlThreads : RlReadOld(t)
    \/ \E t \in RlThreads : RlAssignCleaned(t)
    \/ \E t \in RlThreads : RlCheck(t)
    \/ \E t \in RlThreads : RlAppend(t)

RateConcSpec == InitWeb /\ [][NextRateConc]_vars

(***************************************************************************)
(* require_api_key (src/server/middleware.py)                              *)
(***************************************************************************)
notAuth ==
    <<scraperVars, concVars, recentVars, apiVars, rateVars,
      geoVars, uploadVars>>

\* values of the environment variable: unset, empty, a key
EnvValues == {None, "", "s3cret"}
\* values of the header: missing, the key, another key, empty
HeaderValues == {None, "s3cret", "wrong", ""}

\* truth value of a string or None
Truthy(v) == v # None /\ v # ""

\* if expected_key and api_key != expected_key
Rejected(expected, api_key) ==
    Truthy(expected) /\ api_key # expected

\* the environment of the server process is set up or changed
SetEnv ==
    /\ API_KEY' \in EnvValues \ {API_KEY}
    /\ UNCHANGED <<x_api_key, expected_key, auth_status, auth_requests,
                   handler_calls, notAuth>>

\* wrapper of require_api_key for one request
ApiKeyRequest ==
    /\ auth_requests < MaxAuthRequests
    /\ auth_requests' = auth_requests + 1
    /\ \E h \in HeaderValues :
        /\ x_api_key' = h
        /\ expected_key' = API_KEY
        /\ IF Rejected(API_KEY, h)
           THEN auth_status' = 401 /\ UNCHANGED handler_calls
           ELSE auth_status' = 200 /\ handler_calls' = handler_calls + 1
    /\ UNCHANGED <<API_KEY, notAuth>>

NextAuth ==
    \/ SetEnv
    \/ ApiKeyRequest

AuthSpec == InitWeb /\ [][NextAuth]_vars

(***************************************************************************)
(* LocationCache and GeolocationService (src/server/access_location.py)    *)
(***************************************************************************)
notGeo ==
    <<scraperVars, concVars, recentVars, apiVars, rateVars, authVars,
      uploadVars>>

\* datetime.isoformat() and datetime.fromisoformat()
IsoFormat(t) == [iso |-> t]
FromIsoFormat(ts) == ts.iso

\* json.load of the file: the keys of the dict and the entry of a key
JsonKeys(entries) == {entries[i].key : i \in 1..Len(entries)}
JsonEntry(entries, key) ==
    entries[CHOOSE i \in 1..Len(entries) : entries[i].key = key]

\* cache_data[key] = entry, then json.dump: an existing key keeps its
\* place, a new one comes last
JsonWith(entries, key, entry) ==
    IF key \in JsonKeys(entries)
    THEN [i \in 1..Len(entries) |->
            IF entries[i].key = key THEN entry ELSE entries[i]]
    ELSE Append(entries, entry)

\* an age test that accepts an entry of exactly ttl
FreshUpToTtl(cached_time, t) == t - cached_time <= ttl_minutes

\* datetime.now() - cached_time < self.ttl
Fresh(cached_time, t) == t - cached_time < ttl_minutes

\* LocationCache.get(key) at time t
CacheGet(file, key, t) ==
    IF ~file.exists THEN NoLocation
    ELSE IF key \in JsonKeys(file.entries)
            /\ Fresh(FromIsoFormat(JsonEntry(file.entries, key).timestamp), t)
    THEN JsonEntry(file.entries, key).data
    ELSE NoLocation

\* LocationCache.set(key, data) at time t
CacheSet(file, key, locdata, t) ==
    [exists |-> TRUE,
     entries |-> JsonWith(IF file.exists THEN file.entries ELSE <<>>, key,
                          [key |-> key, timestamp |-> IsoFormat(t),
                           data |-> locdata])]

\* GeolocationService.DEFAULT_LOCATION
DEFAULT_LOCATION ==
    [latitude |-> 5252, longitude |-> 1341, source |-> "default",
     city |-> "Berlin"]

\* the location built from the answer of a provider
ProviderLocation(city) ==
    [latitude |-> 1852, longitude |-> 7386, source |-> "ip_geolocation",
     city |-> city]

\* answers of a provider: RequestException, a status other than 200, a
\* 200 answer that reports a failure, a 200 answer with a location
Answers == {"exception", "http500", "failure", "success"}

\* if cached_location, if location
IsLocation(l) == l # NoLocation

\* time passes
ClockTick ==
    /\ clock < MaxClock
    /\ clock' = clock + 30
    /\ UNCHANGED <<cache_file, latest_set, last_get, geo_call, notGeo>>

\* a call of LocationCache.set
SetCalled ==
    /\ \E k \in CacheKeys, c \in {"Pune", "Nashik"} :
        /\ cache_file' = CacheSet(cache_file, k, ProviderLocation(c), clock)
        /\ latest_set' = [latest_set EXCEPT
                            ![k] = [at |-> clock, data |-> ProviderLocation(c)]]
    /\ last_get' = NoGet
    /\ geo_call' = NoGeoCall
    /\ UNCHANGED <<clock, notGeo>>

\* a call of LocationCache.get
GetCalled ==
    /\ \E k \in CacheKeys :
        last_get' = [key |-> k, at |-> clock,
                     result |-> CacheGet(cache_file, k, clock),
                     set |-> latest_set[k]]
    /\ geo_call' = NoGeoCall
    /\ UNCHANGED <<cache_file, clock, latest_set, notGeo>>

\* a lookup that asks ipapi.co even after ip-api.com gave a location
FromIpBothAsked(ip, a1, a2) ==
    LET key == IF ip # None THEN ip ELSE "default_ip"
        loc == IF a1 = "success" THEN ProviderLocation("Pune")
               ELSE IF a2 = "success" THEN ProviderLocation("Mumbai")
               ELSE NoLocation
    IN  [queried |-> <<"ip-api.com", "ipapi.co">>,
         location |-> loc,
         file |-> IF IsLocation(loc)
                  THEN CacheSet(cache_file, key, loc, clock)
                  ELSE cache_file,
         key |-> key]

\* get_location_from_ip: ip-api.com, then ipapi.co; the first location is
\* cached and returned
FromIp(ip, a1, a2) ==
    LET key == IF ip # None THEN ip ELSE "default_ip"
        loc == IF a1 = "success" THEN ProviderLocation("Pune")
               ELSE IF a2 = "success" THEN ProviderLocation("Mumbai")
               ELSE NoLocation
    IN  [queried |-> IF a1 = "success" THEN <<"ip-api.com">>
                     ELSE <<"ip-api.com", "ipapi.co">>,
         location |-> loc,
         file |-> IF IsLocation(loc)
                  THEN CacheSet(cache_file, key, loc, clock)
                  ELSE cache_file,
         key |-> key]

\* get_location(ip_address, use_cache)
GetLocation ==
    /\ \E ip \in {None, "203.0.113.7"}, use_cache \in BOOLEAN,
          a1 \in Answers, a2 \in Answers :
        LET key == IF ip # None THEN ip ELSE "default_ip"
            cached == CacheGet(cache_file, key, clock)
            r == FromIp(ip, a1, a2)
        IN  IF use_cache /\ IsLocation(cached)
            THEN /\ geo_call' = [ip |-> ip, use_cache |-> use_cache,
                                 cached |-> cached, queried |-> <<>>,
                                 result |-> cached, written |-> FALSE]
                 /\ UNCHANGED <<cache_file, latest_set>>
            ELSE /\ geo_call' = [ip |-> ip, use_cache |-> use_cache,
                                 cached |-> cached, queried |-> r.queried,
                                 result |-> IF IsLocation(r.location)
                                            THEN r.location
                                            ELSE DEFAULT_LOCATION,
                                 written |-> IsLocation(r.location)]
                 /\ cache_file' = r.file
                 /\ latest_set' =
                        IF IsLocation(r.location)
                        THEN [latest_set EXCEPT
                                ![key] = [at |-> clock, data |-> r.location]]
                        ELSE latest_set
    /\ last_get' = NoGet
    /\ UNCHANGED <<clock, notGeo>>

NextGeo ==
    \/ ClockTick
    \/ SetCalled
    \/ GetCalled
    \/ GetLocation

GeoSpec == InitWeb /\ [][NextGeo]_vars

TypeOK ==
    /\ pc \in {"idle", "setup", "get", "selCommodity", "selState", "sleep",
               "waitPresence", "waitOptions", "selMarket", "setDate", "click",
               "extract", "finally", "returned", "raised"}
    /\ tpc \in {"idle", "loop", "calling", "done", "raised"}
    /\ driver \in 0..created
    /\ attempt \in 0..max_retries
    /\ DOMAIN quitCalls = 1..created

(***************************************************************************)
(* Properties                                                              *)
(***************************************************************************)
Ended == pc \in {"finally", "returned", "idle"}

HasRun(step) == \E i \in 1..Len(ran) : ran[i] = step

\* C1: when scrape_market_data has returned (or raised), every browser that
\* was launched has received exactly one quit() call.
C1_NoSessionLeak ==
    pc \in {"returned", "raised"} =>
        \A d \in 1..created : quitCalls[d] = 1

\* C2: a hard failure and a successful fetch with zero rows are never
\* returned as the same value.
C2_FailureDistinctFromEmpty == hardValues \cap emptyOkValues = {}

C6_StrictStepOrder ==
    /\ Len(ran) <= Len(StepOrder)
    /\ \A i \in 1..Len(ran) : ran[i] = StepOrder[i]
    /\ \A i \in 1..(Len(ran) - 1) : ran[i] \in okSteps
    /\ \A st \in okSteps : HasRun(st)

C6_Witness ==
    /\ pc = "returned"
    /\ HasRun("setDate") /\ "setDate" \notin okSteps
    /\ ~HasRun("click") /\ ~HasRun("extract")

C8_StopsAtFirstHardFailure ==
    \A d \in 1..MaxDays :
        (tpc # "idle" /\ dayKind[d] = "hard") =>
            /\ calls[Len(calls)] = d
            /\ tpc = "done" => trends.empty

\* C9 as stated: get_price_trends calls the fetch once per day, in the order
\* days, days - 1, ..., 1.
C9_CallsOldestFirst ==
    tpc = "done" => calls = [i \in 1..days |-> days + 1 - i]

\* C9 as amended: get_price_trends calls the fetch once per day, in the
\* order 1, 2, ..., days (most recent day first).
C9_CallsNewestFirst ==
    /\ tpc \in {"loop", "calling", "done"} =>
           /\ Len(calls) <= days
           /\ \A i \in 1..Len(calls) : calls[i] = i
    /\ tpc = "done" => Len(calls) = days

C9_Witness == tpc = "done" /\ days = MaxDays /\ Len(calls) = MaxDays

\* the prices of days d, d - 1, ..., 1: for each day with data whose first
\* record has a parsable modal price, that price
RECURSIVE ChronoPrices(_)
ChronoPrices(d) ==
    IF d = 0 THEN <<>>
    ELSE LET rest == ChronoPrices(d - 1)
             recs == dayData[d]
         IN  IF recs # <<>> /\ FloatOk(RemoveCommas(recs[1].Modal_Price))
             THEN <<FloatOf(RemoveCommas(recs[1].Modal_Price))>> \o rest
             ELSE rest

\* C10: the price list of the summary is, oldest day first, the modal price
\* of the first record of each day whose fetch returned records and whose
\* first record has a parsable modal price; nothing else enters it.
C10_PriceSequence ==
    tpc = "done" =>
        /\ all_prices = ChronoPrices(days)
        /\ trends.empty = (all_prices = <<>>)
        /\ ~trends.empty => trends.latest_price = all_prices[Len(all_prices)]

C10_Witness ==
    /\ tpc = "done" /\ Len(all_prices) = 2
    /\ all_prices[1] # all_prices[2]
    /\ \E d \in 1..days : Len(dayData[d]) > 1

Abs(x) == IF x < 0 THEN -x ELSE x

Elems(q) == {q[i] : i \in 1..Len(q)}

\* C11: for a non-empty chronological price list the trend is upward when
\* the last price is greater than the first, downward when it is smaller,
\* stable otherwise; highest, lowest and latest_price are its maximum,
\* minimum and last element.
C11_TrendClassification ==
    (tpc = "done" /\ all_prices # <<>>) =>
        LET first == all_prices[1]
            last == all_prices[Len(all_prices)]
        IN  /\ ~trends.empty
            /\ last > first => trends.trend = "upward"
            /\ last < first => trends.trend = "downward"
            /\ last = first => trends.trend = "stable"
            /\ trends.highest_price \in Elems(all_prices)
            /\ \A x \in Elems(all_prices) : x <= trends.highest_price
            /\ trends.lowest_price \in Elems(all_prices)
            /\ \A x \in Elems(all_prices) : x >= trends.lowest_price
            /\ trends.latest_price = last

C11_Witness ==
    /\ tpc = "done" /\ Len(all_prices) = 3
    /\ all_prices[3] < all_prices[1] /\ all_prices[2] > all_prices[1]
    /\ trends.trend = "downward"

\* C12 as stated: percentage_change is exactly (last - first) / first * 100
\* when the first price is not zero and 0 when it is zero.
C12_PercentExact ==
    (tpc = "done" /\ all_prices # <<>>) =>
        LET first == all_prices[1]
            last == all_prices[Len(all_prices)]
        IN  IF first # 0
            THEN trends.percentage_change * first = (last - first) * 10000
            ELSE trends.percentage_change = 0

\* C12 as amended: percentage_change is (last - first) / first * 100 rounded
\* to two decimal places when the first price is not zero and 0 when it is
\* zero; for the prices 2000, 2100, 2150 the trend is upward and the change
\* is 7.5.
C12_PercentRounded ==
    (tpc = "done" /\ all_prices # <<>>) =>
        LET first == all_prices[1]
            last == all_prices[Len(all_prices)]
        IN  /\ IF first # 0
               THEN 2 * Abs(trends.percentage_change * first
                            - (last - first) * 10000) <= Abs(first)
               ELSE trends.percentage_change = 0
            /\ all_prices = <<2000, 2100, 2150>> =>
                   (trends.trend = "upward" /\ trends.percentage_change = 750)

C12_Witness ==
    /\ tpc = "done" /\ days = 5
    /\ all_prices = <<2000, 2100, 2150>>
    /\ trends.percentage_change = 750

\* C13: when no day contributed a price, get_price_trends returns the empty
\* dictionary; max, min and the average are never evaluated on an empty
\* list (which would raise).
C13_EmptySummary ==
    /\ tpc # "raised"
    /\ (tpc = "done" /\ ChronoPrices(days) = <<>>) => trends = EmptyDict
    /\ (tpc = "done" /\ ~trends.empty) => trends.trend_data_points >= 1

C13_Witness ==
    /\ tpc = "done" /\ days = MaxDays /\ trends = EmptyDict
    /\ \E d \in 1..days : dayData[d] # <<>>
    /\ \E d \in 1..days : dayKind[d] = "hard"

\* the rows of the served page of the current fetch
ServedRows == remote[sdays].rows

\* a row a valid Record can be made of
GoodRow(r) ==
    r.cells >= 11 /\ Strip(r.center) # <<>> /\ Strip(r.modal) # <<>>

\* C14: every record returned by the extraction has a non-empty
\* Market_Center and a non-empty Modal_Price after trimming.
C14_RecordsValid ==
    \A i \in 1..Len(data) :
        /\ Strip(data[i].Market_Center) # <<>>
        /\ Strip(data[i].Modal_Price) # <<>>

C14_Witness ==
    /\ pc = "returned" /\ kind = "ok" /\ Len(data) = 2
    /\ \E i \in 2..Len(ServedRows) :
           /\ ServedRows[i].cells >= 11
           /\ Strip(ServedRows[i].center) # <<>>
           /\ Strip(ServedRows[i].modal) = <<>>

\* C15: the records returned are, in source order, exactly the rows after
\* the header row that have at least 11 cells and a non-empty market centre
\* and modal price; the header row is never emitted and a short row does
\* not end the extraction.
C15_ExtractionIsSubsequence ==
    (pc = "returned" /\ kind = "ok" /\ remote[sdays].table) =>
        LET good == IF Len(ServedRows) < 2 THEN <<>>
                    ELSE SelectSeq(Tail(ServedRows), GoodRow)
        IN  /\ Len(data) = Len(good)
            /\ \A i \in 1..Len(good) :
                   /\ data[i].Market_Center = Strip(good[i].center)
                   /\ RemoveCommas(data[i].Modal_Price)
                          = RemoveCommas(Strip(good[i].modal))

C15_Witness ==
    /\ pc = "returned" /\ kind = "ok" /\ Len(data) = 2
    /\ ServedRows[1] = Header
    /\ ServedRows[2].cells < 11

\* C16: a page with a header row and one data row of 11 cells, market centre
\* Pune and modal price "2,250", yields exactly one record, whose modal
\* price is 2250 without the comma.
C16_CommaStripped ==
    (/\ pc = "returned" /\ kind = "ok"
     /\ remote[sdays] = Page(TRUE, <<Header, Row(11, Pune, P2250c)>>)) =>
        data = <<[Market_Center |-> Pune,
                  Modal_Price |-> <<"2", "2", "5", "0">>]>>

C18_InvalidRangeDistinct ==
    (pc = "returned" /\ kind = "invalid") =>
        /\ created = base
        /\ ran = <<>>
        /\ data \notin emptyOkValues

\* C19: over any number of cleanup() calls each browser gets at most one
\* quit(); after a cleanup() self.driver is None, also when quit() raised;
\* no exception leaves cleanup(), and the value returned by the fetch is the
\* one fixed before the finally clause.
C19_CleanupIdempotent ==
    /\ \A d \in 1..created : quitCalls[d] <= 1
    /\ cleanups >= 1 => driver = 0
    /\ pc # "raised"
    /\ (pc = "returned" /\ kind = "ok") => data = ExtractResult(remote[sdays])
    /\ (pc = "returned" /\ kind # "ok") => data = <<>>

C19_Witness ==
    /\ pc = "returned" /\ cleanups >= 2 /\ quitFailed
    /\ created = 1 /\ quitCalls[1] = 1
    /\ data # <<>>

C21_ConcurrentFetchesIsolated ==
    /\ \A t \in Threads : \A b \in drove[t] : launched[b] = t
    /\ \A b \in 1..Len(launched) : quits[b] <= 1
    /\ (\A t \in Threads : th_pc[t] = "returned") =>
           \A b \in 1..Len(launched) : quits[b] = 1

\* the days up to n whose page holds a record
DaysWithData(n) ==
    {d \in 1..n : site[d].table /\ Len(site[d].rows) > 1}

\* C22: findMostRecentData probes days 1, 2, ... in increasing order and,
\* when no fetch fails, returns the records of the first day with data
\* without a fetch for any later day (the empty result, after probing
\* every day, when no day has data).
C22_FirstNonEmptyDay ==
    /\ probes = [i \in 1..Len(probes) |-> i]
    /\ (rpc = "done" /\ ~probeFault) =>
        IF DaysWithData(max_days_to_check) = {}
        THEN recent = <<>> /\ Len(probes) = max_days_to_check
        ELSE \E d \in DaysWithData(max_days_to_check) :
                /\ \A e \in DaysWithData(max_days_to_check) : d <= e
                /\ Len(probes) = d
                /\ Len(recent) = Len(site[d].rows) - 1
                /\ recent[1].Market_Center = site[d].rows[2].center

C22_Witness ==
    /\ rpc = "done" /\ ~probeFault
    /\ max_days_to_check = 5
    /\ DaysWithData(5) = {3}
    /\ probes = <<1, 2, 3>>
    /\ recent # <<>>

\* C23: a request for a key that has a row in the table is answered with
\* the newest row of the key without a call of the scraper, so the scraper
\* is called at most once per key.
C23_CacheFirstNoExpiry ==
    /\ lastReq.hadRow =>
        /\ ~lastReq.scraped
        /\ lastReq.status = 200
        /\ lastReq.body = RowAsDict(RowsOf(lastReq.key)[Len(RowsOf(lastReq.key))])
    /\ \A k \in Keys :
        /\ scrapes[k] <= 1
        /\ Len(RowsOf(k)) <= 1
        /\ scrapes[k] = 1 => RowsOf(k) # <<>>
    /\ (lastReq.outcome = "cached") = lastReq.hadRow
    /\ (lastReq.key \in Keys /\ ~lastReq.hadRow /\ lastReq.outcome # "none") =>
        Len(RowsOf(lastReq.key)) = (IF lastReq.scraped THEN 1 ELSE 0)

C23_Witness ==
    /\ lastReq.hadRow /\ lastReq.outcome = "cached"
    /\ scrapes[lastReq.key] = 1
    /\ lastReq.body["latest_price"] = None
    /\ served = 3

\* C24: a valid request that misses the cache and gets no trend from the
\* scraper (the class is unavailable, the call fails, no price is found) is
\* answered with the mock data, and the row stored for it is the mock data.
C24_MockFallbackOnNoTrend ==
    (lastReq.outcome \in {"unbound", "raise", "empty"}) =>
        /\ lastReq.status = 200
        /\ Get(lastReq.body, "message") = MockMessage
        /\ RowsOf(lastReq.key) # <<>>
        /\ RowsOf(lastReq.key)[Len(RowsOf(lastReq.key))].message = MockMessage

\* no window of window_seconds holds more than max_requests admitted
\* requests of one client
QuotaKept ==
    \A ip \in Ips : \A i \in 1..Len(admitted[ip]) :
        InWindow(ip, admitted[ip][i]) <= max_requests

\* C25: with requests handled one at a time, no client has more than
\* max_requests requests admitted to the handler within window_seconds; a
\* request is answered 429 exactly when max_requests admitted requests of
\* its client lie within the last window_seconds, and then it neither
\* reaches the handler nor is recorded.
C25_RateLimitSequential ==
    /\ QuotaKept
    /\ rl_status[1] = 429 =>
        /\ arrival.inWindow >= max_requests
        /\ Len(admitted[arrival.ip]) = arrival.admittedBefore
        /\ Len(rate_limit_data[arrival.ip]) = arrival.inWindow
    /\ rl_status[1] = 200 =>
        /\ arrival.inWindow < max_requests
        /\ Len(admitted[arrival.ip]) = arrival.admittedBefore + 1
        /\ Len(rate_limit_data[arrival.ip]) = arrival.inWindow + 1

C25_Witness ==
    /\ rl_status[1] = 429
    /\ max_requests = 2
    /\ \E ip \in Ips : ip # arrival.ip /\ Len(admitted[ip]) = 1
    /\ Len(admitted[arrival.ip]) = 4

\* the times recorded for ip that lie in the window ending at time t
Recorded(ip, t) ==
    Len(SelectSeq(rate_limit_data[ip],
                  LAMBDA r : t - r < window_seconds /\ r <= t))

\* C26: with two request threads interleaved, no client has more than
\* max_requests requests admitted within window_seconds, and when no
\* request is in flight every admitted time still within the window is in
\* the recorded list.
C26_RateLimitConcurrent ==
    /\ \A ip \in Ips : \A i \in 1..Len(admitted[ip]) :
        InWindow(ip, admitted[ip][i]) <= max_requests
    /\ (\A t \in RlThreads : rl_pc[t] = "idle") =>
        \A ip \in Ips : Recorded(ip, now) = InWindow(ip, now)

\* C27: whatever the value of API_KEY, the handler runs only for a request
\* whose X-API-Key header is present and equal to the expected key; a
\* request with a missing or wrong key is answered 401.
C27_ApiKeyRequired ==
    /\ auth_status = 200 => (x_api_key # None /\ x_api_key = expected_key)
    /\ (auth_requests > 0
        /\ (x_api_key = None \/ x_api_key # expected_key)) =>
            auth_status = 401

\* the file holds, for each key, exactly the latest set of the key
CacheIsLatestSets ==
    \A k \in CacheKeys :
        IF latest_set[k] = NeverSet
        THEN ~cache_file.exists \/ k \notin JsonKeys(cache_file.entries)
        ELSE /\ cache_file.exists
             /\ k \in JsonKeys(cache_file.entries)
             /\ JsonEntry(cache_file.entries, k).data = latest_set[k].data
             /\ JsonEntry(cache_file.entries, k).timestamp.iso
                    = latest_set[k].at

\* C28 as stated: get_location returns a location with latitude and
\* longitude; a cached entry of the key that has not expired is returned
\* without a query; otherwise ip-api.com is queried first, ipapi.co only
\* when ip-api.com gave no location, the default location is returned only
\* when both gave none, and it is not written to the cache.
C28_StrategyOrder ==
    geo_call # NoGeoCall =>
        /\ {"latitude", "longitude"} \subseteq DOMAIN geo_call.result
        /\ IsLocation(geo_call.cached) =>
            geo_call.queried = <<>> /\ geo_call.result = geo_call.cached
        /\ ~IsLocation(geo_call.cached) =>
            /\ geo_call.queried \in {<<"ip-api.com">>,
                                     <<"ip-api.com", "ipapi.co">>}
            /\ (Len(geo_call.queried) = 1) = (geo_call.result.city = "Pune")
        /\ geo_call.result = DEFAULT_LOCATION =>
            Len(geo_call.queried) = 2 /\ ~geo_call.written
        /\ \A k \in CacheKeys : latest_set[k].data # DEFAULT_LOCATION

\* C28 as amended: the cached entry is returned without a query when
\* use_cache is true; with use_cache false, or without a cached entry that
\* has not expired, the providers are queried in order.
C28_StrategyOrderWithUseCache ==
    geo_call # NoGeoCall =>
        /\ {"latitude", "longitude"} \subseteq DOMAIN geo_call.result
        /\ (geo_call.use_cache /\ IsLocation(geo_call.cached)) =>
            geo_call.queried = <<>> /\ geo_call.result = geo_call.cached
        /\ ~(geo_call.use_cache /\ IsLocation(geo_call.cached)) =>
            /\ geo_call.queried \in {<<"ip-api.com">>,
                                     <<"ip-api.com", "ipapi.co">>}
            /\ (Len(geo_call.queried) = 1) = (geo_call.result.city = "Pune")
        /\ geo_call.result = DEFAULT_LOCATION =>
            Len(geo_call.queried) = 2 /\ ~geo_call.written
        /\ \A k \in CacheKeys : latest_set[k].data # DEFAULT_LOCATION
        /\ CacheIsLatestSets

C28_Witness ==
    /\ geo_call.use_cache /\ IsLocation(geo_call.cached)
    /\ geo_call.queried = <<>>
    /\ geo_call.result.city = "Mumbai"
    /\ clock = 30

\* C29: LocationCache.get returns a value only when the latest set of the
\* key is less than ttl old, the value is the data of that set, and the
\* entries of the other keys stay as their own latest sets left them.
C29_NoExpiredData ==
    /\ IsLocation(last_get.result) =>
        /\ last_get.set # NeverSet
        /\ last_get.at - last_get.set.at < ttl_minutes
        /\ last_get.result = last_get.set.data
    /\ \A k \in CacheKeys :
        latest_set[k] # NeverSet =>
            /\ cache_file.exists
            /\ k \in JsonKeys(cache_file.entries)
            /\ JsonEntry(cache_file.entries, k).data = latest_set[k].data
            /\ FromIsoFormat(JsonEntry(cache_file.entries, k).timestamp)
                    = latest_set[k].at

C29_Witness ==
    /\ IsLocation(last_get.result)
    /\ last_get.at = 90
    /\ last_get.set.at = 60
    /\ last_get.set.data.city = "Nashik"
    /\ \E k \in CacheKeys : k # last_get.key /\ latest_set[k].at = 0
    /\ Len(cache_file.entries) = 2

(***************************************************************************)
(* speech_to_text and analyze_crop (src/server/app.py)                     *)
(***************************************************************************)
notUpload ==
    <<scraperVars, concVars, recentVars, apiVars, rateVars, authVars,
      geoVars>>

\* the import block of app.py: every name is bound to its class, or an
\* import fails, CropDiseaseAnalyzer is None and AudioTranscriber, the last
\* import of the block, stays unbound
ImportServices ==
    /\ imports = "boot"
    /\ imports' \in {"ok", "failed"}
    /\ UNCHANGED <<uploads, up_pc, up_route, up_path, up_read, up_status,
                   notUpload>>

CropDiseaseAnalyzer == IF imports = "ok" THEN "class" ELSE None
AudioTranscriber == IF imports = "ok" THEN "class" ELSE "unbound"

\* the handler up to file.save: 400 without a file part or with an empty
\* filename; a filename that secure_filename empties makes save open the
\* folder itself and raise before the try block; otherwise the upload is
\* written to the path, over a file that is there
UploadRequest(t, route, hasPart, raw) ==
    /\ imports # "boot"
    /\ up_pc[t] \in {"idle", "done"}
    /\ up_route' = [up_route EXCEPT ![t] = route]
    /\ up_read' = [up_read EXCEPT ![t] = -1]
    /\ IF ~hasPart \/ raw = <<>>
       THEN /\ up_status' = [up_status EXCEPT ![t] = 400]
            /\ up_path' = [up_path EXCEPT ![t] = <<>>]
            /\ up_pc' = [up_pc EXCEPT ![t] = "done"]
            /\ UNCHANGED uploads
       ELSE IF secure_filename(raw) = <<>>
       THEN /\ up_status' = [up_status EXCEPT ![t] = 500]
            /\ up_path' = [up_path EXCEPT ![t] = <<>>]
            /\ up_pc' = [up_pc EXCEPT ![t] = "done"]
            /\ UNCHANGED uploads
       ELSE /\ up_status' = [up_status EXCEPT ![t] = 0]
            /\ up_path' = [up_path EXCEPT ![t] = secure_filename(raw)]
            /\ uploads' = [uploads EXCEPT ![secure_filename(raw)] = t]
            /\ up_pc' = [up_pc EXCEPT ![t] = "saved"]
    /\ UNCHANGED <<imports, notUpload>>

\* the try block: the service reads the file of the path and answers or
\* raises; without the analyzer the mock result, with AudioTranscriber None
\* the 503, with the name unbound the NameError caught as the 500
UploadTry(t, raises) ==
    /\ up_pc[t] = "saved"
    /\ IF up_route[t] = "crop"
       THEN IF CropDiseaseAnalyzer # None
            THEN /\ up_read' = [up_read EXCEPT ![t] = uploads[up_path[t]]]
                 /\ up_status' =
                        [up_status EXCEPT ![t] = IF raises THEN 500 ELSE 200]
            ELSE /\ up_status' = [up_status EXCEPT ![t] = 200]
                 /\ UNCHANGED up_read
       ELSE IF AudioTranscriber = "unbound"
            THEN /\ up_status' = [up_status EXCEPT ![t] = 500]
                 /\ UNCHANGED up_read
            ELSE IF AudioTranscriber # None
            THEN /\ up_read' = [up_read EXCEPT ![t] = uploads[up_path[t]]]
                 /\ up_status' =
                        [up_status EXCEPT ![t] = IF raises THEN 500 ELSE 200]
            ELSE /\ up_status' = [up_status EXCEPT ![t] = 503]
                 /\ UNCHANGED up_read
    /\ up_pc' = [up_pc EXCEPT ![t] = "finally"]
    /\ UNCHANGED <<imports, uploads, up_route, up_path, notUpload>>

\* finally: os.path.exists(path)
UploadExists(t) ==
    /\ up_pc[t] = "finally"
    /\ up_pc' = [up_pc EXCEPT ![t] =
                    IF uploads[up_path[t]] # 0 THEN "remove" ELSE "done"]
    /\ UNCHANGED <<imports, uploads, up_route, up_path, up_read, up_status,
                   notUpload>>

\* finally: os.remove(path), FileNotFoundError when the file went away
\* after the test
UploadRemove(t) ==
    /\ up_pc[t] = "remove"
    /\ IF uploads[up_path[t]] # 0
       THEN /\ uploads' = [uploads EXCEPT ![up_path[t]] = 0]
            /\ UNCHANGED up_status
       ELSE /\ up_status' = [up_status EXCEPT ![t] = 500]
            /\ UNCHANGED uploads
    /\ up_pc' = [up_pc EXCEPT ![t] = "done"]
    /\ UNCHANGED <<imports, up_route, up_path, up_read, notUpload>>

NextUpload ==
    \/ ImportServices
    \/ \E t \in UpThreads, route \in {"crop", "speech"}, hasPart \in BOOLEAN,
          raw \in RawNames : UploadRequest(t, route, hasPart, raw)
    \/ \E t \in UpThreads, raises \in BOOLEAN : UploadTry(t, raises)
    \/ \E t \in UpThreads : UploadExists(t)
    \/ \E t \in UpThreads : UploadRemove(t)

UploadSpec == InitWeb /\ [][NextUpload]_vars

\* C30: after a handler has returned, the file it saved does not exist; and
\* while a request is between its save and the end of its service call the
\* file of its path holds its own upload, which is what its service reads:
\* no other request has removed or overwritten it.
C30_UploadsIsolatedAndCleaned ==
    \A t \in UpThreads :
        /\ up_pc[t] = "done" /\ up_path[t] # <<>> => uploads[up_path[t]] # t
        /\ up_pc[t] = "saved" => uploads[up_path[t]] = t
        /\ up_read[t] # -1 => up_read[t] = t

=============================================================================
